---- MODULE Spec2Model ----
(***************************************************************************)
(* Model of the THCO wallet API (src/index.js): the Shopify "orders paid"  *)
(* webhook that turns a paid order into loyalty points in a Supabase       *)
(* store.  The store is the three relations users, wallets and             *)
(* wallet_transactions.  A webhook request runs synchronously up to its    *)
(* first await and then one store call at a time; requests interleave at   *)
(* the awaits, so every action below is "the store executes the pending    *)
(* call of request r and r's handler runs up to its next await".           *)
(* The column updated_at (a wall-clock timestamp) is not modelled.         *)
(***************************************************************************)
EXTENDS Integers, Sequences, FiniteSets, TLC

\* Number of webhook requests the model lets arrive.
NumReq == 2

\* Number of store calls the model lets fail.
MaxFaults == 1

Req == 1..NumReq

(***************************************************************************)
(* Values of the request payload.                                          *)
(***************************************************************************)

\* total_price as Shopify sends it: a decimal string with two fraction
\* digits ("10.00" is [neg |-> FALSE, int |-> 10, frac |-> 0]), a string
\* that is no number ("abc"), or a missing field (undefined).
Dec(neg, int, frac) == [t |-> "dec", neg |-> neg, int |-> int, frac |-> frac]

NotANumberText == [t |-> "text", neg |-> FALSE, int |-> 0, frac |-> 0]

Undefined == [t |-> "undefined", neg |-> FALSE, int |-> 0, frac |-> 0]

\* A JavaScript number with at most two fraction digits, held in hundredths,
\* or NaN.
Num(h) == [nan |-> FALSE, h |-> h]

NaN == [nan |-> TRUE, h |-> 0]

\* parseFloat of a total_price value.
parseFloat(s) ==
    IF s.t = "dec"
    THEN Num((IF s.neg THEN -1 ELSE 1) * (s.int * 100 + s.frac))
    ELSE NaN

\* JavaScript truthiness of a number: NaN and 0 are falsy.
Truthy(n) == ~n.nan /\ n.h # 0

\* Math.floor of (n * k) for a number n in hundredths and an integer k.
FloorTimes(n, k) == IF n.nan THEN NaN ELSE Num(((n.h * k) \div 100) * 100)

rate == 3

\* calcPoints, src/index.js lines 161-165; the result is an integer (the
\* amount is never NaN after "|| 0").
calcPoints(totalPrice) ==
    LET amount == IF Truthy(parseFloat(totalPrice)) THEN parseFloat(totalPrice) ELSE Num(0)
    IN  FloorTimes(amount, rate).h \div 100

\* The earlier definition of calcPoints, src/index.js lines 36-38: one point
\* per unit of currency, and NaN for an amount that does not parse.
calcPointsV1(totalPrice) == FloorTimes(parseFloat(totalPrice), 1)

(***************************************************************************)
(* The request: raw body, signature header, and the process environment.   *)
(***************************************************************************)

\* String(n) for a non-negative JSON number n: its decimal digits.
Digit(d) == <<"0", "1", "2", "3", "4", "5", "6", "7", "8", "9">>[d + 1]

RECURSIVE String(_)
String(n) == IF n < 10 THEN Digit(n) ELSE String(n \div 10) \o Digit(n % 10)

\* The customer object of a payload; NoCustomer is a payload without one
\* (customer missing or null).
NoCustomer == [id |-> 0, email |-> "", first_name |-> "", last_name |-> ""]

\* The raw body: bytes that are no JSON ("malformed"), the JSON text null, a
\* JSON number, string, boolean or array ("scalar"), or a JSON object with
\* the fields the handler reads.
Body(kind, id, total_price, customer) ==
    [kind |-> kind, id |-> id, total_price |-> total_price, customer |-> customer]

NonObjectBodies ==
    { Body(k, 0, Undefined, NoCustomer) : k \in {"malformed", "null", "scalar"} }

\* The orders the sender reports.  An order id stands for one order, so a
\* redelivery repeats the whole body.  Orders 41 and 42 are of the same
\* customer, whose email and name changed in between; 43 is of another
\* customer and has a negative total; 44 has no customer.
OrderBodies ==
    { Body("object", 41, Dec(FALSE, 10, 0),
           [id |-> 7, email |-> "a@x", first_name |-> "Ann", last_name |-> "Lee"]),
      Body("object", 42, Dec(FALSE, 5, 0),
           [id |-> 7, email |-> "b@x", first_name |-> "Ann", last_name |-> ""]),
      Body("object", 43, Dec(TRUE, 1, 0),
           [id |-> 8, email |-> "b@x", first_name |-> "", last_name |-> "Bo"]),
      Body("object", 44, Dec(FALSE, 10, 0), NoCustomer) }

Bodies == NonObjectBodies \cup OrderBodies

\* The secret the sender signs with, and the values of the environment
\* variable SHOPIFY_WEBHOOK_SECRET (Unset: not configured).
SenderSecret == "shpss"

Unset == "undefined"

\* crypto.createHmac('sha256', key).update(body).digest('base64'): a value
\* that depends on the key and on every byte of the body.
Hmac(key, body) == <<"sha256", key, body>>

NoHeader == <<>>

\* A body that differs from b in one place.
Tamper(b) == [b EXCEPT !.id = b.id + 1]

\* The X-Shopify-Hmac-Sha256 header of a request: the sender's signature of
\* the body, none, a signature under another key, or the signature of a
\* body that was changed afterwards.
SigKinds == {"valid", "missing", "wrongkey", "tampered"}

HeaderOf(sig, body) ==
    CASE sig = "valid"    -> Hmac(SenderSecret, body)
      [] sig = "missing"  -> NoHeader
      [] sig = "wrongkey" -> Hmac("other", body)
      [] sig = "tampered" -> Hmac(SenderSecret, Tamper(body))

\* verifyHmac changed to let a request without signature header pass.
verifyHmacLax(hmacHeader, body, key) ==
    IF key = Unset THEN "TypeError"
    ELSE IF hmacHeader = NoHeader \/ Hmac(key, body) = hmacHeader THEN "true" ELSE "false"

\* verifyHmac, src/index.js lines 144-154.  createHmac throws a TypeError
\* when the key is undefined; otherwise the digest is compared with the
\* header (undefined when the header is missing).
verifyHmac(hmacHeader, body, key) ==
    IF key = Unset THEN "TypeError"
    ELSE IF Hmac(key, body) = hmacHeader THEN "true" ELSE "false"

\* getJson, src/index.js lines 156-159: JSON.parse throws a SyntaxError on
\* bytes that are no JSON.
getJson(body) == IF body.kind = "malformed" THEN "SyntaxError" ELSE body.kind

\* `${customer.first_name || ''} ${customer.last_name || ''}`.trim()
FullName(c) ==
    IF c.first_name # "" /\ c.last_name # ""
    THEN c.first_name \o " " \o c.last_name
    ELSE c.first_name \o c.last_name

(***************************************************************************)
(* State.                                                                  *)
(***************************************************************************)
VARIABLES
    secret,               \* process.env.SHOPIFY_WEBHOOK_SECRET
    users,                \* relation users: row id = index
    wallets,              \* relation wallets: row id = index
    wallet_transactions,  \* relation wallet_transactions, in insertion order
    rq,                   \* per request: position, locals, response, history
    faults,               \* history: number of store calls that have failed
    calc,                 \* the points calculator on its own: input and results
    qry,                  \* the balance query: position, locals, response
    overlap               \* history: two requests have been in progress at once

vars == <<secret, users, wallets, wallet_transactions, rq, faults, calc, qry, overlap>>

\* data: null, as a wallet row.
NoWallet == [id |-> 0, points |-> 0, lifetime_points |-> 0]

IdleReq ==
    [ pc |-> "idle", status |-> 0, text |-> "",
      sig |-> "", order |-> "", hasCustomer |-> FALSE,
      shopifyCustomerId |-> "", email |-> "", name |-> "",
      orderId |-> "", points |-> 0,
      user |-> 0, wallet |-> NoWallet,
      ops |-> 0, parsed |-> FALSE, failed |-> FALSE,
      newWallet |-> 0, txnDone |-> FALSE, updDone |-> FALSE ]

\* The calculator before it is applied to totalPrice.
CalcOf(totalPrice) ==
    [totalPrice |-> totalPrice, done |-> FALSE, points |-> 0, pointsV1 |-> NaN]

\* data: null, as a users row (the columns id, name, email).
NoUser == [id |-> 0, name |-> "", email |-> ""]

\* The balance query before a request; name is "null" where the response
\* carries name: null; fault is history: a lookup of the query failed in
\* the store.
IdleQuery ==
    [ pc |-> "idle", email |-> "", user |-> NoUser,
      status |-> 0, success |-> FALSE, message |-> "", fault |-> FALSE,
      name |-> "", hasWallet |-> FALSE, points |-> 0, lifetime_points |-> 0 ]

Init ==
    /\ calc = CalcOf(Undefined)
    /\ qry = IdleQuery
    /\ secret \in {SenderSecret, Unset}
    /\ users = <<>>
    /\ wallets = <<>>
    /\ wallet_transactions = <<>>
    /\ rq = [r \in Req |-> IdleReq]
    /\ faults = 0
    /\ overlap = FALSE

InProgress(r) == rq[r].pc \notin {"idle", "done"}

\* res.status(code).send(text): the request ends.
Respond(q, code, text) == [q EXCEPT !.pc = "done", !.status = code, !.text = text]

\* The catch block, src/index.js lines 243-246.
ServerError(q) == Respond(q, 500, "Server error")

\* What a store call can do: succeed, return {data: null, error}, or reject
\* (the awaited promise throws).
Outcomes == {"ok", "error", "throw"}

\* The store call of a step ends with outcome out.
StoreCall(out) ==
    /\ out # "ok" => faults < MaxFaults
    /\ faults' = IF out = "ok" THEN faults ELSE faults + 1

(***************************************************************************)
(* The store's operations (supabase-js calls), as functions of a relation.  *)
(***************************************************************************)

\* The upsert changed to keep the email and name of an account it finds.
UpsertUserRowKeep(us, cid, email, name) ==
    IF \E i \in DOMAIN us : us[i].shopify_customer_id = cid
    THEN us
    ELSE Append(us, [shopify_customer_id |-> cid, email |-> email, name |-> name])

\* users.upsert({shopify_customer_id, email, name},
\*              {onConflict: 'shopify_customer_id'}), src/index.js 192-203.
UpsertUserRow(us, cid, email, name) ==
    IF \E i \in DOMAIN us : us[i].shopify_customer_id = cid
    THEN [i \in DOMAIN us |->
            IF us[i].shopify_customer_id = cid
            THEN [us[i] EXCEPT !.email = email, !.name = name]
            ELSE us[i]]
    ELSE Append(us, [shopify_customer_id |-> cid, email |-> email, name |-> name])

\* The id of the row the upsert returns (.select().single()).
UserIdOf(us, cid) == CHOOSE i \in DOMAIN us : us[i].shopify_customer_id = cid

\* wallets.select('*').eq('user_id', uid).single(), src/index.js 206-210:
\* the row when exactly one matches, else data: null.
SelectWallet(ws, uid) ==
    LET rows == {i \in DOMAIN ws : ws[i].user_id = uid}
    IN  IF Cardinality(rows) = 1
        THEN LET i == CHOOSE j \in rows : TRUE
             IN  [id |-> i, points |-> ws[i].points,
                  lifetime_points |-> ws[i].lifetime_points]
        ELSE NoWallet

\* wallets.insert({user_id}), src/index.js 213-217; the totals take the
\* column default, zero.  The table definition is not part of the source:
\* without a unique index on user_id the insert adds a second row for an
\* account that has one; with such an index the store answers with an
\* error, which is the outcome "error" of the step.
InsertWalletRow(ws, uid) ==
    Append(ws, [user_id |-> uid, points |-> 0, lifetime_points |-> 0])

\* wallet_transactions.insert({...}), src/index.js 222-229.
InsertTxnRow(ts, q) ==
    Append(ts, [wallet_id |-> q.wallet.id, type |-> "earn", source |-> "order",
                shopify_order_id |-> q.orderId, points_change |-> q.points])

\* The update changed to write the award instead of adding it.
UpdateWalletRowOverwrite(ws, q) ==
    [i \in DOMAIN ws |->
        IF i = q.wallet.id
        THEN [ws[i] EXCEPT !.points = q.points, !.lifetime_points = q.points]
        ELSE ws[i]]

\* The update changed to leave out the filter .eq('id', wallet.id).
UpdateWalletRowAll(ws, q) ==
    [i \in DOMAIN ws |->
        [ws[i] EXCEPT !.points = q.wallet.points + q.points,
                      !.lifetime_points = q.wallet.lifetime_points + q.points]]

\* The update changed to add the award to the totals the row holds.
UpdateWalletRowIncrement(ws, q) ==
    [i \in DOMAIN ws |->
        IF i = q.wallet.id
        THEN [ws[i] EXCEPT !.points = @ + q.points,
                           !.lifetime_points = @ + q.points]
        ELSE ws[i]]

\* wallets.update({points, lifetime_points}).eq('id', wallet.id),
\* src/index.js 232-239: the totals of the handler's copy plus the award.
UpdateWalletRow(ws, q) ==
    [i \in DOMAIN ws |->
        IF i = q.wallet.id
        THEN [ws[i] EXCEPT !.points = q.wallet.points + q.points,
                           !.lifetime_points = q.wallet.lifetime_points + q.points]
        ELSE ws[i]]

(***************************************************************************)
(* The webhook handler, app.post('/shopify/orders-paid'), lines 167-247.   *)
(***************************************************************************)

\* The synchronous part changed to go on without the "No customer" return.
BeginNoCustomerCheck(q0, hmacHeader, body, key) ==
    LET v     == verifyHmac(hmacHeader, body, key)
        order == getJson(body)
        q1    == [q0 EXCEPT !.parsed = TRUE, !.order = order,
                            !.hasCustomer = (body.customer # NoCustomer)]
    IN  IF v = "TypeError" THEN ServerError(q0)
        ELSE IF v = "false" THEN Respond(q0, 401, "Invalid HMAC")
        ELSE IF order = "SyntaxError" THEN ServerError(q1)
        ELSE IF order = "null" THEN ServerError(q1)
        ELSE [q1 EXCEPT !.pc = "upsert",
                        !.shopifyCustomerId = String(body.customer.id),
                        !.email = body.customer.email,
                        !.name = FullName(body.customer),
                        !.points = calcPoints(body.total_price),
                        !.orderId = String(body.id)]

\* Steps 1 and 2 and the locals, lines 168-189: the synchronous part of the
\* handler, from the request q0 to its state at the first await.
Begin(q0, hmacHeader, body, key) ==
    LET v     == verifyHmac(hmacHeader, body, key)
        order == getJson(body)
        q1    == [q0 EXCEPT !.parsed = TRUE, !.order = order,
                            !.hasCustomer = (body.customer # NoCustomer)]
    IN  IF v = "TypeError" THEN ServerError(q0)
        ELSE IF v = "false" THEN Respond(q0, 401, "Invalid HMAC")
        ELSE IF order = "SyntaxError" THEN ServerError(q1)
        ELSE IF order = "null" THEN ServerError(q1)
        ELSE IF order = "scalar" \/ body.customer = NoCustomer
             THEN Respond(q1, 200, "No customer")
        ELSE [q1 EXCEPT !.pc = "upsert",
                        !.shopifyCustomerId = String(body.customer.id),
                        !.email = body.customer.email,
                        !.name = FullName(body.customer),
                        !.points = calcPoints(body.total_price),
                        !.orderId = String(body.id)]

\* A request arrives.  Requests are taken in the order of their numbers.
Receive(r, sig, body) ==
    /\ rq[r].pc = "idle"
    /\ r > 1 => rq[r - 1].pc # "idle"
    /\ LET q0 == [rq[r] EXCEPT !.sig = sig]
           q  == Begin(q0, HeaderOf(sig, body), body, secret)
       IN  /\ rq' = [rq EXCEPT ![r] = q]
           /\ overlap' = (overlap \/ (q.pc # "done" /\ \E o \in Req : InProgress(o)))
    /\ UNCHANGED <<secret, users, wallets, wallet_transactions, faults, calc, qry>>

\* The handler after the upsert, lines 192-210: user is null on an error and
\* user.id throws.
AfterUpsert(q, out, uid) ==
    LET q1 == [q EXCEPT !.ops = @ + 1, !.failed = (@ \/ out # "ok")]
    IN  IF out = "ok" THEN [q1 EXCEPT !.pc = "lookup", !.user = uid]
        ELSE ServerError(q1)

\* Step 3.
UpsertUser(r, out) ==
    /\ rq[r].pc = "upsert"
    /\ StoreCall(out)
    /\ LET us == IF out = "ok"
                 THEN UpsertUserRow(users, rq[r].shopifyCustomerId, rq[r].email, rq[r].name)
                 ELSE users
           uid == IF out = "ok" THEN UserIdOf(us, rq[r].shopifyCustomerId) ELSE 0
       IN  /\ users' = us
           /\ rq' = [rq EXCEPT ![r] = AfterUpsert(rq[r], out, uid)]
    /\ UNCHANGED <<secret, wallets, wallet_transactions, calc, qry, overlap>>

\* The handler after the wallet lookup, lines 206-212: the error is not
\* read, so a failed lookup looks like "no wallet".
AfterLookup(q, out, found) ==
    LET q1 == [q EXCEPT !.ops = @ + 1, !.failed = (@ \/ out # "ok")]
    IN  IF out = "throw" THEN ServerError(q1)
        ELSE IF out = "ok" /\ found # NoWallet
             THEN [q1 EXCEPT !.pc = "txn", !.wallet = found]
        ELSE [q1 EXCEPT !.pc = "insert"]

\* Step 4, the lookup.
LookupWallet(r, out) ==
    /\ rq[r].pc = "lookup"
    /\ StoreCall(out)
    /\ rq' = [rq EXCEPT ![r] = AfterLookup(rq[r], out, SelectWallet(wallets, rq[r].user))]
    /\ UNCHANGED <<secret, users, wallets, wallet_transactions, calc, qry, overlap>>

\* The handler after the wallet insert, lines 213-223: newWallet is null on
\* an error and wallet.id throws.
AfterInsertWallet(q, out, id) ==
    LET q1 == [q EXCEPT !.ops = @ + 1, !.failed = (@ \/ out # "ok")]
    IN  IF out = "ok"
        THEN [q1 EXCEPT !.pc = "txn", !.newWallet = id,
                        !.wallet = [id |-> id, points |-> 0, lifetime_points |-> 0]]
        ELSE ServerError(q1)

\* Step 4, the insert.
InsertWallet(r, out) ==
    /\ rq[r].pc = "insert"
    /\ StoreCall(out)
    /\ wallets' = IF out = "ok" THEN InsertWalletRow(wallets, rq[r].user) ELSE wallets
    /\ rq' = [rq EXCEPT ![r] = AfterInsertWallet(rq[r], out, Len(wallets) + 1)]
    /\ UNCHANGED <<secret, users, wallet_transactions, calc, qry, overlap>>

\* The handler after the transaction insert, lines 222-232: the result is
\* not read, so only a rejected promise stops the handler.
AfterInsertTxn(q, out) ==
    LET q1 == [q EXCEPT !.ops = @ + 1, !.failed = (@ \/ out # "ok"),
                        !.txnDone = (out = "ok")]
    IN  IF out = "throw" THEN ServerError(q1) ELSE [q1 EXCEPT !.pc = "update"]

\* Step 5.
InsertTxn(r, out) ==
    /\ rq[r].pc = "txn"
    /\ StoreCall(out)
    /\ wallet_transactions' =
           IF out = "ok" THEN InsertTxnRow(wallet_transactions, rq[r])
           ELSE wallet_transactions
    /\ rq' = [rq EXCEPT ![r] = AfterInsertTxn(rq[r], out)]
    /\ UNCHANGED <<secret, users, wallets, calc, qry, overlap>>

\* The handler after the balance update, lines 232-241: the result is not
\* read, and the response is OK unless the promise rejects.
AfterUpdateWallet(q, out) ==
    LET q1 == [q EXCEPT !.ops = @ + 1, !.failed = (@ \/ out # "ok"),
                        !.updDone = (out = "ok")]
    IN  IF out = "throw" THEN ServerError(q1) ELSE Respond(q1, 200, "OK")

\* Step 6.
UpdateWallet(r, out) ==
    /\ rq[r].pc = "update"
    /\ StoreCall(out)
    /\ wallets' = IF out = "ok" THEN UpdateWalletRow(wallets, rq[r]) ELSE wallets
    /\ rq' = [rq EXCEPT ![r] = AfterUpdateWallet(rq[r], out)]
    /\ UNCHANGED <<secret, users, wallet_transactions, calc, qry, overlap>>

Next ==
    \/ \E r \in Req, sig \in SigKinds, body \in Bodies : Receive(r, sig, body)
    \/ \E r \in Req, out \in Outcomes : UpsertUser(r, out)
    \/ \E r \in Req, out \in Outcomes : LookupWallet(r, out)
    \/ \E r \in Req, out \in Outcomes : InsertWallet(r, out)
    \/ \E r \in Req, out \in Outcomes : InsertTxn(r, out)
    \/ \E r \in Req, out \in Outcomes : UpdateWallet(r, out)

Spec == Init /\ [][Next]_vars

(***************************************************************************)
(* The points calculator on its own: every amount of the bounded set is    *)
(* an initial state, and the one action applies calcPoints to it.          *)
(***************************************************************************)

\* Largest whole part of the amounts the calculator is applied to.
MaxPriceInt == 12

CalcInputs ==
    { Dec(neg, i, f) : neg \in BOOLEAN, i \in 0..MaxPriceInt, f \in 0..99 }
        \cup {NotANumberText, Undefined}

CalcInit ==
    /\ calc \in {CalcOf(p) : p \in CalcInputs}
    /\ qry = IdleQuery
    /\ secret = SenderSecret
    /\ users = <<>>
    /\ wallets = <<>>
    /\ wallet_transactions = <<>>
    /\ rq = [r \in Req |-> IdleReq]
    /\ faults = 0
    /\ overlap = FALSE

Calculate ==
    /\ ~calc.done
    /\ calc' = [calc EXCEPT !.done = TRUE,
                            !.points = calcPoints(calc.totalPrice),
                            !.pointsV1 = calcPointsV1(calc.totalPrice)]
    /\ UNCHANGED <<secret, users, wallets, wallet_transactions, rq, faults, qry, overlap>>

CalcNext == Calculate

CalcSpec == CalcInit /\ [][CalcNext]_vars

(***************************************************************************)
(* The balance query, app.get('/wallet/by-email'), lines 257-316.  One     *)
(* query is in progress at a time; it interleaves with the webhook          *)
(* requests at its two awaits.                                              *)
(***************************************************************************)

\* req.query.email: missing (""), the email of an account, or of none.
QueryEmails == {"", "a@x", "b@x", "z@x"}

\* users.select('id, name, email').eq('email', email).maybeSingle(),
\* src/index.js 269-273: the row, data: null for no row, an error for
\* several rows.
SelectUserByEmail(us, email) ==
    LET rows == {i \in DOMAIN us : us[i].email = email}
    IN  IF Cardinality(rows) > 1 THEN [error |-> TRUE, data |-> NoUser]
        ELSE IF rows = {} THEN [error |-> FALSE, data |-> NoUser]
        ELSE LET i == CHOOSE j \in rows : TRUE
             IN  [error |-> FALSE,
                  data |-> [id |-> i, name |-> us[i].name, email |-> us[i].email]]

\* wallets.select('points, lifetime_points').eq('user_id', uid)
\* .maybeSingle(), src/index.js 293-297 (id stands for "not null").
SelectWalletOfUser(ws, uid) ==
    LET rows == {i \in DOMAIN ws : ws[i].user_id = uid}
    IN  IF Cardinality(rows) > 1 THEN [error |-> TRUE, data |-> NoWallet]
        ELSE IF rows = {} THEN [error |-> FALSE, data |-> NoWallet]
        ELSE LET i == CHOOSE j \in rows : TRUE
             IN  [error |-> FALSE,
                  data |-> [id |-> i, points |-> ws[i].points,
                            lifetime_points |-> ws[i].lifetime_points]]

\* res.status(code).json({success: false, message}); the handler's locals
\* end with it.
QueryFail(q, code, message) ==
    [q EXCEPT !.pc = "done", !.status = code, !.success = FALSE, !.message = message,
              !.user = NoUser]

\* res.json({success: true, email, name, hasWallet, points, lifetime_points}).
QueryAnswer(q, name, wallet) ==
    [q EXCEPT !.pc = "done", !.status = 200, !.success = TRUE, !.name = name,
              !.user = NoUser,
              !.hasWallet = (wallet # NoWallet),
              !.points = wallet.points,
              !.lifetime_points = wallet.lifetime_points]

\* Lines 258-273: the query arrives; 400 without email.
QueryBegin(email) ==
    /\ qry.pc \in {"idle", "done"}
    /\ qry' = IF email = ""
              THEN QueryFail(IdleQuery, 400, "email is required")
              ELSE [IdleQuery EXCEPT !.pc = "user", !.email = email]
    /\ UNCHANGED <<secret, users, wallets, wallet_transactions, rq, faults, calc, overlap>>

\* The handler after the user lookup, lines 275-297.
AfterQueryUser(q0, out, res) ==
    LET q == [q0 EXCEPT !.fault = (out # "ok")]
    IN  IF out = "throw" THEN QueryFail(q, 500, "Unexpected error")
        ELSE IF out = "error" \/ res.error THEN QueryFail(q, 500, "User lookup failed")
        ELSE IF res.data = NoUser THEN QueryAnswer(q, "null", NoWallet)
        ELSE [q EXCEPT !.pc = "wallet", !.user = res.data]

\* Step 1 of the query: the user lookup.
QueryUser(out) ==
    /\ qry.pc = "user"
    /\ qry' = AfterQueryUser(qry, out, SelectUserByEmail(users, qry.email))
    /\ UNCHANGED <<secret, users, wallets, wallet_transactions, rq, faults, calc, overlap>>

\* The handler after the wallet lookup, lines 299-311.
AfterQueryWallet(q0, out, res) ==
    LET q == [q0 EXCEPT !.fault = (out # "ok")]
    IN  IF out = "throw" THEN QueryFail(q, 500, "Unexpected error")
        ELSE IF out = "error" \/ res.error THEN QueryFail(q, 500, "Wallet lookup failed")
        ELSE QueryAnswer(q, q.user.name, res.data)

\* The wallet lookup changed to create the wallet it does not find.
QueryWalletCreating(out) ==
    /\ qry.pc = "wallet"
    /\ qry' = AfterQueryWallet(qry, out, SelectWalletOfUser(wallets, qry.user.id))
    /\ wallets' = IF SelectWalletOfUser(wallets, qry.user.id).data = NoWallet
                  THEN InsertWalletRow(wallets, qry.user.id)
                  ELSE wallets
    /\ UNCHANGED <<secret, users, wallet_transactions, rq, faults, calc, overlap>>

\* Step 2 of the query: the wallet lookup.  The query only reads.
QueryWallet(out) ==
    /\ qry.pc = "wallet"
    /\ qry' = AfterQueryWallet(qry, out, SelectWalletOfUser(wallets, qry.user.id))
    /\ UNCHANGED <<secret, users, wallets, wallet_transactions, rq, faults, calc, overlap>>

\* The purchase events: authentic orders with a customer.
PurchaseBodies == {b \in OrderBodies : b.customer # NoCustomer}

\* The webhook requests that reach the store, together with balance queries.
QueryNext ==
    \/ \E r \in Req, body \in PurchaseBodies : Receive(r, "valid", body)
    \/ \E r \in Req : UpsertUser(r, "ok")
    \/ \E r \in Req : LookupWallet(r, "ok")
    \/ \E r \in Req : InsertWallet(r, "ok")
    \/ \E r \in Req : InsertTxn(r, "ok")
    \/ \E r \in Req : UpdateWallet(r, "ok")
    \/ \E email \in QueryEmails : QueryBegin(email)
    \/ \E out \in Outcomes : QueryUser(out)
    \/ \E out \in Outcomes : QueryWallet(out)

\* The queries run beside purchase events whose store calls all succeed; a
\* query's own lookups may fail.
QueryInit ==
    /\ calc = CalcOf(Undefined)
    /\ qry = IdleQuery
    /\ secret = SenderSecret
    /\ users = <<>>
    /\ wallets = <<>>
    /\ wallet_transactions = <<>>
    /\ rq = [r \in Req |-> IdleReq]
    /\ faults = MaxFaults
    /\ overlap = FALSE

QuerySpec == QueryInit /\ [][QueryNext]_vars

(***************************************************************************)
(* Store calls that never return.  No await of either handler carries a    *)
(* timeout (lines 192-239, 269-297): when the store never answers, the     *)
(* promise never settles and the handler stays at its await.               *)
(***************************************************************************)

AwaitingStore == {"upsert", "lookup", "insert", "txn", "update"}

\* The pending store call of request r never returns.
HangRequest(r) ==
    /\ rq[r].pc \in AwaitingStore
    /\ rq' = [rq EXCEPT ![r].pc = "hung"]
    /\ UNCHANGED <<secret, users, wallets, wallet_transactions, faults, calc, qry, overlap>>

\* The pending lookup of the query never returns.
HangQuery ==
    /\ qry.pc \in {"user", "wallet"}
    /\ qry' = [qry EXCEPT !.pc = "hung"]
    /\ UNCHANGED <<secret, users, wallets, wallet_transactions, rq, faults, calc, overlap>>

\* The continuation of request r after its pending store call settled.
RequestStep(r) ==
    \E out \in Outcomes :
        \/ UpsertUser(r, out)
        \/ LookupWallet(r, out)
        \/ InsertWallet(r, out)
        \/ InsertTxn(r, out)
        \/ UpdateWallet(r, out)

\* The continuation of the query after its pending lookup settled.
QueryStep == \E out \in Outcomes : QueryUser(out) \/ QueryWallet(out)

LiveNext ==
    \/ \E r \in Req, sig \in SigKinds, body \in Bodies : Receive(r, sig, body)
    \/ \E r \in Req : RequestStep(r)
    \/ \E r \in Req : HangRequest(r)
    \/ \E email \in QueryEmails : QueryBegin(email)
    \/ QueryStep
    \/ HangQuery

\* The event loop runs a continuation once its promise has settled: a
\* request whose store call returned takes its next step.
LiveSpec ==
    /\ Init
    /\ [][LiveNext]_vars
    /\ \A r \in Req : WF_vars(RequestStep(r))
    /\ WF_vars(QueryStep)

(***************************************************************************)
(* Vocabulary of the properties.                                           *)
(***************************************************************************)

Done(r) == rq[r].pc = "done"

AnsweredOK(r) == Done(r) /\ rq[r].status = 200 /\ rq[r].text = "OK"

\* No webhook request is in progress.
Quiescent == \A r \in Req : ~InProgress(r)

\* The customer ids of the payloads, as the handler stores them.
CustomerIds == {String(b.customer.id) : b \in {o \in OrderBodies : o.customer # NoCustomer}}

\* The requests that reached the store for customer c (purchase events).
PurchasesOf(c) == {r \in Req : rq[r].pc # "idle" /\ rq[r].shopifyCustomerId = c}

\* The balances (wallet rows) of the account of customer c.
WalletsOf(c) ==
    {i \in DOMAIN wallets :
        \E u \in DOMAIN users :
            users[u].shopify_customer_id = c /\ wallets[i].user_id = u}

RECURSIVE SumAwards(_)
SumAwards(R) ==
    IF R = {} THEN 0
    ELSE LET r == CHOOSE x \in R : TRUE IN rq[r].points + SumAwards(R \ {r})

\* Sum of points_change over the transactions that reference wallet w.
RECURSIVE SumTxn(_, _)
SumTxn(ts, w) ==
    IF ts = <<>> THEN 0
    ELSE (IF Head(ts).wallet_id = w THEN Head(ts).points_change ELSE 0)
             + SumTxn(Tail(ts), w)

OrderIdsOf(R) == {rq[r].orderId : r \in R}

(***************************************************************************)
(* Properties.                                                             *)
(***************************************************************************)

\* C1: redelivery idempotence.  When every request answered OK for a
\* customer carries the same order id (one or more deliveries of one order),
\* no store call failed and no request is in progress, the customer's
\* balance holds the order's award once: points and lifetime_points equal
\* the award of one delivery.
C1_RedeliveryAppliedOnce ==
    \A c \in CustomerIds :
        LET R == {r \in PurchasesOf(c) : AnsweredOK(r)}
        IN  (Quiescent /\ faults = 0 /\ R # {} /\ Cardinality(OrderIdsOf(R)) = 1)
            => \A w \in WalletsOf(c), r \in R :
                   /\ wallets[w].points = rq[r].points
                   /\ wallets[w].lifetime_points = rq[r].points

\* C2: no lost update.  When the requests answered OK for a customer carry
\* pairwise different order ids, in any interleaving, no store call failed,
\* no request is in progress and the customer has one balance, that
\* balance's points and lifetime_points equal the sum of the awards.
C2_NoLostUpdate ==
    \A c \in CustomerIds :
        LET R == {r \in PurchasesOf(c) : AnsweredOK(r)}
        IN  (Quiescent /\ faults = 0 /\ Cardinality(R) >= 2
                /\ Cardinality(OrderIdsOf(R)) = Cardinality(R)
                /\ Cardinality(WalletsOf(c)) = 1)
            => \A w \in WalletsOf(c) :
                   /\ wallets[w].points = SumAwards(R)
                   /\ wallets[w].lifetime_points = SumAwards(R)

\* C3: sequential accumulation.  When no two requests were ever in progress
\* at once, no store call failed and no request is in progress, then for
\* every customer whose purchase events carry pairwise different order ids:
\* every one of them was answered OK, the customer has exactly one balance,
\* and its points and lifetime_points both equal the sum of the awards.  In
\* particular order 41 ("10.00", rate 3) alone gives 30/30, and orders 41
\* and 42 ("5.00") give 45/45.
C3_SequentialAccumulation ==
    \A c \in CustomerIds :
        LET R == PurchasesOf(c)
        IN  (Quiescent /\ ~overlap /\ faults = 0 /\ R # {}
                /\ Cardinality(OrderIdsOf(R)) = Cardinality(R))
            => /\ \A r \in R : AnsweredOK(r)
               /\ Cardinality(WalletsOf(c)) = 1
               /\ \A w \in WalletsOf(c) :
                      /\ wallets[w].points = SumAwards(R)
                      /\ wallets[w].lifetime_points = wallets[w].points
                      /\ OrderIdsOf(R) = {"41"} => wallets[w].points = 30
                      /\ OrderIdsOf(R) = {"41", "42"} => wallets[w].points = 45

\* C3 witness: order 41 and then order 42 of the new customer 7 were handled
\* one after the other without a store error, and the balance is 45/45.
C3_Witness ==
    /\ NumReq >= 2
    /\ Quiescent /\ ~overlap /\ faults = 0
    /\ AnsweredOK(1) /\ rq[1].orderId = "41" /\ rq[1].points = 30
    /\ AnsweredOK(2) /\ rq[2].orderId = "42" /\ rq[2].points = 15
    /\ \E w \in WalletsOf("7") :
           wallets[w].points = 45 /\ wallets[w].lifetime_points = 45

\* C4: ledger consistency.  Whenever no request is in progress, every
\* balance's points and lifetime_points each equal the sum of points_change
\* over the transactions that reference the balance.
C4_LedgerConsistent ==
    Quiescent =>
        \A w \in DOMAIN wallets :
            /\ wallets[w].points = SumTxn(wallet_transactions, w)
            /\ wallets[w].lifetime_points = SumTxn(wallet_transactions, w)

\* The signature header of request r is not the sender's signature of the
\* body.
BadSignature(r) == rq[r].sig \in {"missing", "wrongkey", "tampered"}

\* Request r ended without a store call and without a ledger write.
NoStoreEffect(r) ==
    /\ Done(r)
    /\ rq[r].ops = 0 /\ rq[r].user = 0
    /\ rq[r].newWallet = 0 /\ ~rq[r].txnDone /\ ~rq[r].updDone

\* C5: invalid signature has no effect.  With the shared secret configured,
\* every request whose header is not the base64 HMAC-SHA256 of its raw body
\* under that secret (missing, made with another key, or made for a body
\* that was changed) is answered 401 without any store call and without
\* parsing the body.  (Also without a configured secret such a request makes
\* no store call and parses nothing; its status is then C6's subject.)
C5_InvalidSignatureNoEffect ==
    \A r \in Req :
        (rq[r].pc # "idle" /\ BadSignature(r))
        => /\ NoStoreEffect(r)
           /\ ~rq[r].parsed
           /\ secret # Unset => rq[r].status = 401

\* C5 witness: a request with a tampered body was answered 401 while the
\* store already holds an account and a balance that it left alone.
C5_Witness ==
    \E r \in Req :
        /\ secret # Unset /\ rq[r].sig = "tampered"
        /\ rq[r].status = 401 /\ rq[r].ops = 0
        /\ users # <<>> /\ wallets # <<>>

\* C6: a request without signature header, and any request while the shared
\* secret is not configured, is answered 401 without further processing.
C6_MissingHeaderOrSecretIs401 ==
    \A r \in Req :
        (rq[r].pc # "idle" /\ (rq[r].sig = "missing" \/ secret = Unset))
        => /\ rq[r].status = 401
           /\ NoStoreEffect(r)
           /\ ~rq[r].parsed

\* Request r was authentic, its body parsed (JSON.parse returned), and the
\* payload has no customer.
ParsedWithoutCustomer(r) ==
    /\ rq[r].pc # "idle"
    /\ rq[r].parsed /\ rq[r].order # "SyntaxError"
    /\ ~rq[r].hasCustomer

\* C7, as claimed: every authenticated payload that parses and has no
\* customer is answered 200 "No customer" and changes nothing.
C7_NoCustomerIsNoOp_AsClaimed ==
    \A r \in Req :
        ParsedWithoutCustomer(r)
        => /\ rq[r].status = 200 /\ rq[r].text = "No customer"
           /\ NoStoreEffect(r)

\* C7, amended: every authenticated payload that parses to a JSON value
\* other than null and has no customer is answered 200 "No customer"
\* without any store call, so no account, balance or transaction is created
\* or modified; for the JSON text null the answer is 500 "Server error",
\* also without any store call.
C7_NoCustomerIsNoOp ==
    \A r \in Req :
        ParsedWithoutCustomer(r)
        => /\ NoStoreEffect(r)
           /\ IF rq[r].order = "null"
              THEN rq[r].status = 500 /\ rq[r].text = "Server error"
              ELSE rq[r].status = 200 /\ rq[r].text = "No customer"

\* C7 witness: an authentic order object without customer was answered
\* 200 "No customer" while the store holds an account and a balance.
C7_Witness ==
    \E r \in Req :
        /\ rq[r].sig = "valid" /\ rq[r].order = "object" /\ ~rq[r].hasCustomer
        /\ rq[r].status = 200 /\ rq[r].text = "No customer"
        /\ users # <<>> /\ wallets # <<>>

\* C8: no partial ledger write on failure.  A request one of whose store
\* calls failed ends with 500, and none of its ledger writes exists: it
\* inserted no balance, appended no transaction and changed no totals.
C8_NoPartialWriteOnFailure ==
    \A r \in Req :
        (Done(r) /\ rq[r].failed)
        => /\ rq[r].status = 500
           /\ rq[r].newWallet = 0 /\ ~rq[r].txnDone /\ ~rq[r].updDone

\* C9: a request is answered 200 "OK" only if the store appended its
\* transaction (its order id, its award) and applied its balance update.
C9_OKOnlyIfLedgerWritten ==
    \A r \in Req :
        AnsweredOK(r)
        => /\ rq[r].txnDone /\ rq[r].updDone
           /\ \E i \in DOMAIN wallet_transactions :
                  /\ wallet_transactions[i].shopify_order_id = rq[r].orderId
                  /\ wallet_transactions[i].points_change = rq[r].points
                  /\ wallet_transactions[i].wallet_id = rq[r].wallet.id

\* C10: points calculation.  For every amount a >= 0 the result p is
\* floor(a * rate), that is p <= a * rate < p + 1 (in hundredths), so 0
\* for a = 0; for every negative and every unparseable amount it is 0.
C10_PointsCalculation ==
    calc.done =>
        LET tp == calc.totalPrice
            h  == (IF tp.neg THEN -1 ELSE 1) * (tp.int * 100 + tp.frac)
            p  == calc.points
        IN  IF tp.t = "dec" /\ h >= 0
            THEN p * 100 <= h * rate /\ h * rate < (p + 1) * 100
            ELSE p = 0

\* The accounts with email e, and the balances of account u.
AccountsWithEmail(e) == {u \in DOMAIN users : users[u].email = e}

BalancesOfUser(u) == {w \in DOMAIN wallets : wallets[w].user_id = u}

\* The query answers success with no wallet and zero totals.
ZeroAnswer(q) ==
    /\ q.status = 200 /\ q.success
    /\ ~q.hasWallet /\ q.points = 0 /\ q.lifetime_points = 0

\* The query answers success with the totals of balance w.
BalanceAnswer(q, w) ==
    /\ q.status = 200 /\ q.success /\ q.hasWallet
    /\ q.points = wallets[w].points
    /\ q.lifetime_points = wallets[w].lifetime_points

\* C11: balance query result.  Whenever a query whose lookups the store
\* served answers: if no account has the email, or the account it found has
\* no balance, the answer is success:true, hasWallet:false, points 0,
\* lifetime_points 0; if an account has the email and has a balance, the
\* answer is success:true, hasWallet:true with that balance's current points
\* and lifetime_points.  This in every store state the webhook produces.
C11_QueryResult ==
    [][ /\ (qry.pc = "user" /\ qry'.pc = "done" /\ ~qry'.fault)
            => /\ AccountsWithEmail(qry.email) = {}
               /\ ZeroAnswer(qry')
        /\ (qry.pc = "wallet" /\ qry'.pc = "done" /\ ~qry'.fault)
            => IF BalancesOfUser(qry.user.id) = {}
               THEN ZeroAnswer(qry')
               ELSE \E w \in BalancesOfUser(qry.user.id) : BalanceAnswer(qry', w)
      ]_vars

\* C12: the balance query is read-only.  Every step of a query, whatever
\* its input and outcome (400, 500 or success), leaves the relations users,
\* wallets and wallet_transactions unchanged, also between the steps of
\* webhook requests in progress.
C12_QueryReadOnly ==
    [][ qry' # qry => UNCHANGED <<users, wallets, wallet_transactions>> ]_vars

\* C12 witness: a query answered with a balance while a webhook request is
\* in progress, after an earlier query.
C12_Witness ==
    /\ qry.pc = "done" /\ qry.success /\ qry.hasWallet /\ qry.points = 30
    /\ \E r \in Req : InProgress(r)
    /\ wallet_transactions # <<>>

\* The balance rows a step adds.
NewWallets == {w \in DOMAIN wallets' : w \notin DOMAIN wallets}

\* C13: exactly one balance per account.  In every reachable state, under
\* any interleaving of webhook requests, each account has at most one
\* balance; once a request for the account was answered OK it has exactly
\* one; and a balance is created with points and lifetime_points zero.
C13_OneBalancePerAccount ==
    [][ /\ \A c \in CustomerIds :
               /\ Cardinality(WalletsOf(c)') <= 1
               /\ (\E r \in PurchasesOf(c)' : AnsweredOK(r)')
                      => Cardinality(WalletsOf(c)') = 1
        /\ \A w \in NewWallets :
               wallets'[w].points = 0 /\ wallets'[w].lifetime_points = 0
      ]_vars

\* C14: balance field invariants.  In every reachable state each balance's
\* points is a non-negative integer, and from one state to the next no
\* balance's lifetime_points decreases.
C14_BalanceFields ==
    [][ \A w \in DOMAIN wallets' :
            /\ wallets'[w].points \in Nat
            /\ w \in DOMAIN wallets
                   => wallets'[w].lifetime_points >= wallets[w].lifetime_points
      ]_vars

\* Request r's upsert is applied by the step.
UpsertApplied(r) == rq[r].pc = "upsert" /\ rq'[r].pc = "lookup"

\* C15: identity resolution.  In every reachable state there is at most one
\* account per external customer id, also when requests for one new
\* customer overlap; no step removes an account or changes its customer id;
\* the only step that changes the accounts is an applied upsert, and after
\* it the customer's account carries the email and name of that request's
\* event and all other accounts are as before, so an account shows the
\* event applied last.
C15_IdentityResolution ==
    [][ /\ \A u, v \in DOMAIN users' :
               users'[u].shopify_customer_id = users'[v].shopify_customer_id => u = v
        /\ \A u \in DOMAIN users :
               /\ u \in DOMAIN users'
               /\ users'[u].shopify_customer_id = users[u].shopify_customer_id
        /\ users' # users => \E r \in Req : UpsertApplied(r)
        /\ \A r \in Req :
               UpsertApplied(r)
               => /\ \E u \in DOMAIN users' :
                         /\ rq'[r].user = u
                         /\ users'[u] = [shopify_customer_id |-> rq[r].shopifyCustomerId,
                                         email |-> rq[r].email, name |-> rq[r].name]
                  /\ \A u \in DOMAIN users :
                         users[u].shopify_customer_id # rq[r].shopifyCustomerId
                             => users'[u] = users[u]
      ]_vars

\* C15 witness: two overlapping requests for the new customer 7 (orders 41
\* and 42) are both answered; there is one account, and it carries the
\* email and name of order 42, applied after order 41's.
C15_Witness ==
    /\ overlap /\ Quiescent
    /\ users = <<[shopify_customer_id |-> "7", email |-> "b@x", name |-> "Ann"]>>
    /\ \E r \in Req : Done(r) /\ rq[r].email = "a@x" /\ rq[r].user = 1

\* The transactions that reference a balance of customer c.
TxnsOf(c) ==
    {i \in DOMAIN wallet_transactions : wallet_transactions[i].wallet_id \in WalletsOf(c)}

\* The customer whose account owns balance w of the relations us, ws.
OwnerOf(us, ws, w) == us[ws[w].user_id].shopify_customer_id

\* The step leaves the account, the balances and the transactions of
\* customer c as they are: every row of c after the step is a row of c
\* before it, unchanged, and the other way round.
Untouched(c) ==
    /\ \A u \in DOMAIN users' :
           users'[u].shopify_customer_id = c
               => u \in DOMAIN users /\ users[u] = users'[u]
    /\ \A u \in DOMAIN users :
           users[u].shopify_customer_id = c
               => u \in DOMAIN users' /\ users'[u] = users[u]
    /\ \A w \in DOMAIN wallets' :
           OwnerOf(users', wallets', w) = c
               => w \in DOMAIN wallets /\ wallets[w] = wallets'[w]
    /\ \A w \in DOMAIN wallets :
           OwnerOf(users, wallets, w) = c
               => w \in DOMAIN wallets' /\ wallets'[w] = wallets[w]
    /\ \A t \in DOMAIN wallet_transactions' :
           OwnerOf(users', wallets', wallet_transactions'[t].wallet_id) = c
               => /\ t \in DOMAIN wallet_transactions
                  /\ wallet_transactions[t] = wallet_transactions'[t]
    /\ \A t \in DOMAIN wallet_transactions :
           OwnerOf(users, wallets, wallet_transactions[t].wallet_id) = c
               => /\ t \in DOMAIN wallet_transactions'
                  /\ wallet_transactions'[t] = wallet_transactions[t]

\* Customer c's only purchase event ran, without store failure, beside
\* requests of other customers, and all requests ended: c has one balance
\* holding the award and one transaction, as when the event runs alone.
AsIfAlone(c) ==
    (/\ Quiescent /\ faults = 0
     /\ Cardinality(PurchasesOf(c)) = 1
     /\ \E r \in Req : rq[r].shopifyCustomerId \notin {c, ""})
    => /\ Cardinality(WalletsOf(c)) = 1
       /\ \A w \in WalletsOf(c) :
              /\ wallets[w].points = SumAwards(PurchasesOf(c))
              /\ wallets[w].lifetime_points = SumAwards(PurchasesOf(c))
       /\ Cardinality(TxnsOf(c)) = 1

\* C16: independence of identities.  Every step of a webhook request for
\* customer A, in any interleaving, that changes the store leaves the
\* account, the balances and the transactions of every other customer B
\* unchanged (a request without customer changes nothing); and when B's one
\* purchase event ran beside A's requests, B's final balance is the one the
\* event yields alone: the award.
C16_Independence ==
    [][ /\ <<users, wallets, wallet_transactions>>
               # <<users', wallets', wallet_transactions'>>
               => \A r \in Req :
                      rq'[r] # rq[r]
                      => \A c \in CustomerIds \ {rq'[r].shopifyCustomerId} :
                             Untouched(c)
        /\ Quiescent' => \A c \in CustomerIds : AsIfAlone(c)'
      ]_vars

\* C16 witness: order 41 of customer 7 and order 43 of customer 8 overlapped
\* and both were answered OK; customer 7's balance is 30/30 with one
\* transaction.
C16_Witness ==
    /\ overlap /\ Quiescent /\ faults = 0
    /\ \E r \in PurchasesOf("8") : AnsweredOK(r)
    /\ \E r \in PurchasesOf("7") : AnsweredOK(r)
    /\ \E w \in WalletsOf("7") :
           wallets[w].points = 30 /\ wallets[w].lifetime_points = 30
    /\ Cardinality(TxnsOf("7")) = 1

\* The transaction the store holds for request r once r is answered OK.
TxnOfRequest(r) ==
    [wallet_id |-> rq'[r].wallet.id, type |-> "earn", source |-> "order",
     shopify_order_id |-> rq'[r].orderId, points_change |-> rq'[r].points]

\* C17: transactions are append-only.  No step changes or removes an
\* existing transaction; a step adds at most one; and every request that is
\* answered OK has appended exactly one transaction, which references the
\* request's balance and carries type 'earn', source 'order', the request's
\* order id and its award.
C17_TransactionsAppendOnly ==
    [][ /\ Len(wallet_transactions') \in {Len(wallet_transactions), Len(wallet_transactions) + 1}
        /\ \A i \in DOMAIN wallet_transactions :
               wallet_transactions'[i] = wallet_transactions[i]
        /\ \A r \in Req :
               (~AnsweredOK(r) /\ AnsweredOK(r)')
               => /\ rq'[r].txnDone
                  /\ \E i \in DOMAIN wallet_transactions' :
                         wallet_transactions'[i] = TxnOfRequest(r)
      ]_vars

\* C18: a malformed payload is a processing failure.  Every authenticated
\* body that does not parse as a JSON object (not JSON at all, the JSON
\* text null, or a JSON number, string, boolean or array) is answered
\* 500 "Server error", never 200, without any store call.
C18_MalformedPayloadIs500 ==
    \A r \in Req :
        (rq[r].pc # "idle" /\ rq[r].parsed /\ rq[r].order # "object")
        => /\ rq[r].status = 500 /\ rq[r].text = "Server error"
           /\ NoStoreEffect(r)

\* C19: every request eventually gets a response.  Every webhook request
\* that was received eventually ends with a response (401, 200 or 500), and
\* every balance query that passed its input check eventually ends with a
\* response, also when a store call never returns: the request then ends
\* with the processing-failure response instead of waiting forever.
C19_EveryRequestAnswered ==
    /\ \A r \in Req : (rq[r].pc # "idle") ~> Done(r)
    /\ (qry.pc \in {"user", "wallet", "hung"}) ~> (qry.pc = "done")

\* The order of a handler's positions: from each position, the positions
\* one step can lead to.
StepOrder ==
    {<<"idle", "upsert">>, <<"upsert", "lookup">>, <<"lookup", "insert">>,
     <<"lookup", "txn">>, <<"insert", "txn">>, <<"txn", "update">>}
    \cup {<<p, "done">> : p \in {"idle"} \cup AwaitingStore}

\* The balance rows that exist before and after the step and differ.
ChangedWallets == {w \in DOMAIN wallets : wallets'[w] # wallets[w]}

\* C20: ordering of the store operations of one webhook request.  Every
\* step of a request r follows the order receive, upsert, lookup, (insert,)
\* transaction, update, response; a step that calls the store belongs to a
\* request whose signature was verified under the configured secret; the
\* accounts change only in r's first store call; a balance is inserted only
\* as r's third call, after the upsert and a lookup that gave r no balance;
\* the copy of the balance r holds is the row read at the lookup or the
\* zero balance it created, and is not refreshed afterwards; a transaction
\* is appended only before r's update; and the update writes, to r's
\* balance only, the totals of r's copy plus the award, whatever totals the
\* row holds at that moment.
C20_OperationOrder ==
    [][ \A r \in Req :
            rq'[r] # rq[r]
            => /\ <<rq[r].pc, rq'[r].pc>> \in StepOrder
               /\ rq'[r].ops > rq[r].ops
                      => /\ rq[r].sig = "valid" /\ secret = SenderSecret
                         /\ rq[r].pc \in AwaitingStore
               /\ <<users, wallets, wallet_transactions>>
                      # <<users', wallets', wallet_transactions'>>
                      => rq'[r].ops > rq[r].ops
               /\ users' # users => rq[r].pc = "upsert" /\ rq[r].ops = 0
               /\ rq[r].pc = "lookup"
                      => /\ rq[r].ops = 1
                         /\ rq'[r].pc = "txn"
                                => /\ rq'[r].wallet.id \in DOMAIN wallets
                                   /\ rq'[r].wallet.points
                                          = wallets[rq'[r].wallet.id].points
                                   /\ rq'[r].wallet.lifetime_points
                                          = wallets[rq'[r].wallet.id].lifetime_points
                         /\ rq'[r].pc = "insert" => rq'[r].wallet = NoWallet
               /\ NewWallets # {}
                      => /\ rq[r].pc = "insert" /\ rq[r].ops = 2
                         /\ rq[r].wallet = NoWallet
                         /\ rq'[r].wallet.id \in NewWallets
                         /\ rq'[r].wallet.points = 0
                         /\ rq'[r].wallet.lifetime_points = 0
               /\ rq[r].pc \in {"txn", "update"} => rq'[r].wallet = rq[r].wallet
               /\ wallet_transactions' # wallet_transactions
                      => rq[r].pc = "txn" /\ ~rq[r].updDone
               /\ rq[r].pc = "update" => rq[r].ops \in {3, 4}
               /\ \A w \in ChangedWallets :
                      /\ rq[r].pc = "update" /\ w = rq[r].wallet.id
                      /\ wallets'[w].points = rq[r].wallet.points + rq[r].points
                      /\ wallets'[w].lifetime_points
                             = rq[r].wallet.lifetime_points + rq[r].points
      ]_vars

\* C20 witness: orders 41 and 42 of customer 7 overlapped, both updates were
\* applied to the one balance, and the balance holds the later writer's
\* copy plus its award, which is less than the two awards together.
C20_Witness ==
    \E r, o \in Req :
        /\ r # o /\ AnsweredOK(r) /\ AnsweredOK(o) /\ faults = 0
        /\ rq[r].updDone /\ rq[o].updDone
        /\ rq[r].wallet.id = rq[o].wallet.id
        /\ rq[r].points > 0 /\ rq[o].points > 0
        /\ wallets[rq[r].wallet.id].points = rq[r].wallet.points + rq[r].points
        /\ wallets[rq[r].wallet.id].points < rq[r].points + rq[o].points

====
